---- MODULE Spec2Model ----
(***************************************************************************)
(* Call-signaling and presence relay of src/sockets/callHandlers.js.       *)
(*                                                                         *)
(* The module keeps two Maps, activeUsers (socketId -> user info) and      *)
(* activeCalls (callId -> call info), and registers the same set of event  *)
(* handlers in two io.on('connection') blocks.  Every async handler runs   *)
(* synchronously up to its first await on the User / Call store and is     *)
(* resumed when that store call returns or throws; handler invocations of  *)
(* different events (and of the two blocks) interleave at those awaits.    *)
(*                                                                         *)
(* A store call takes effect in the step that resumes its handler.         *)
(***************************************************************************)
EXTENDS Integers, Sequences, FiniteSets, Bags, TLC

\* ------------------------------------------------------------------ bounds
MaxEvents == 4          \* client events (and disconnects) delivered in a run
MaxPending == 1         \* handlers in flight when a further event may arrive
MaxFailures == 1        \* store calls that throw or never return in a run
TickMs == 700           \* milliseconds on the clock between two events

\* ------------------------------------------------------------- input sets
\* Three connections: s1 is the calling client (user u1, an employee), s2 a
\* doctor's client (u2), s3 an admin dashboard (u3); s1 may also send
\* user-joined without a payload, or with the data of the admin u3.
Sockets == {"s1", "s2", "s3"}
DirUsers == {"u1", "u2", "u3"}          \* users that have a directory record
NoUser == "u0"                          \* an id without a directory record
Null == "null"

RoleOf(u) == CASE u = "u2" -> "doctor" [] u = "u3" -> "admin" [] OTHER -> "employee"

\* The payload of user-joined: user data, or nothing at all (null/undefined).
NullData == [nul |-> TRUE, id |-> Null, role |-> Null]
UserData(u) == [nul |-> FALSE, id |-> u, role |-> RoleOf(u)]

\* What each client may send.
JoinPayloads(s) ==
  CASE s = "s1" -> {NullData, UserData("u1"), UserData("u3")}
    [] s = "s2" -> {UserData("u2")}
    [] OTHER    -> {UserData("u3")}
Callers == {"s1"}
Answerers == {"s2", "s3"}
CallIdInputs == {1}

\* The directory documents: username, name and email of each user (a field
\* a document does not have is Null); u2 has all three, u1 no username and
\* u3 none of them.
Profile(u) ==
  CASE u = "u1" -> [username |-> Null, name |-> "Ann", email |-> "ann@clinic"]
    [] u = "u2" -> [username |-> "drbob", name |-> "Bob", email |-> "bob@clinic"]
    [] OTHER    -> [username |-> Null, name |-> Null, email |-> Null]

\* The payloads of initiate-call: a call to u3 in the name of u1 without a
\* callerName, a call to u2 with a callerName and the callerId of a user
\* without a directory record, and a call to a user without a record.
InitiatePayloads ==
  {[callerId |-> "u1", calleeId |-> "u3", callerName |-> Null],
   [callerId |-> NoUser, calleeId |-> "u2", callerName |-> "Annie"],
   [callerId |-> "u1", calleeId |-> NoUser, callerName |-> Null]}

\* Signaling messages: s1 sends an offer, an answer or an ICE candidate to
\* s3; an offer also to itself, to a socket id no connection has, or without
\* a payload.
RelayEvents == {"offer", "answer", "ice-candidate"}
RelaySenders == {"s1"}
UnknownSocket == "s9"
NoPayload == [nul |-> TRUE, target |-> Null, body |-> Null]
RelayPayloads(s, ev) ==
  {[nul |-> FALSE, target |-> "s3", body |-> "sdp"]}
    \cup (IF ev = "offer"
            THEN {NoPayload} \cup {[nul |-> FALSE, target |-> x, body |-> "sdp"] :
                                    x \in {s, UnknownSocket}}
            ELSE {})

\* The two io.on('connection') registrations: each one installs a full set
\* of handlers on every socket, so every event runs one handler per block.
ConnectionBlocks == {1, 2}

\* new Date(): the clock reading, in milliseconds; it advances with every
\* event delivered (the handler of an event reads the advanced clock).
MsPerSecond == 1000

VARIABLES
  activeUsers,   \* Map socketId -> user info, in insertion order
  activeCalls,   \* keys of the Map callId -> call info; a key is inserted once,
                 \* in increasing order, so the Map iterates in key order
  callInfo,      \* the call info objects, by callId; handlers hold references
  userDir,       \* User collection: isOnline / socketId per user
  callDb,        \* Call collection: status, endTime and duration per call
                 \* record (a set is empty while the field is not set)
  tasks,         \* bag of the handler invocations in flight (suspended at
                 \* an await); the handlers one event starts in the two
                 \* blocks run the same code on the same arguments
  closed,        \* sockets that have disconnected
  emitted,       \* bag of events emitted to sockets
  callWrites,    \* bag of updates applied to the Call collection
  dirWrites,     \* bag of updates applied to the User collection
  hist,          \* per call: the client events dispatched on it, in order
  nEvents,       \* events delivered so far
  nFailures,     \* store calls that threw so far
  escaped        \* an exception left a handler uncaught: the process is gone

vars == <<activeUsers, activeCalls, callInfo, userDir, callDb, tasks, closed, emitted,
          callWrites, dirWrites, hist, nEvents, nFailures, escaped>>

\* ------------------------------------------------------- Map (insertion order)
MapHas(m, k) == \E i \in DOMAIN m : m[i].key = k

MapGet(m, k) == m[CHOOSE i \in DOMAIN m : m[i].key = k].val

MapSetAppending(m, k, v) == Append(m, [key |-> k, val |-> v])

MapSet(m, k, v) ==
  IF MapHas(m, k)
    THEN [i \in DOMAIN m |-> IF m[i].key = k THEN [key |-> k, val |-> v] ELSE m[i]]
    ELSE Append(m, [key |-> k, val |-> v])

MapDelete(m, k) == SelectSeq(m, LAMBDA e : e.key # k)

SeqToBag(s) ==
  LET R == {s[i] : i \in DOMAIN s}
  IN  [e \in R |-> Cardinality({i \in DOMAIN s : s[i] = e})]

\* ------------------------------------------------------------------ emits
\* io.to(socketId).emit / socket.emit: the packet reaches the socket only
\* while it is connected.
\* Of the payload: the callId (call), the reason or message, the callerId
\* (incoming-call) and the duration, a set that is empty when the payload
\* has no duration field; the callerName of incoming-call; of a relayed signaling message, the socket id the
\* relay stamps on it (sender) and the offer / answer / candidate (body).
Emit(ev, to, call, reason, cl) ==
  [ev |-> ev, to |-> to, call |-> call, reason |-> reason, live |-> to \notin cl,
   bc |-> FALSE, callerId |-> Null, callerName |-> Null, dur |-> {},
   sender |-> Null, body |-> Null]

\* (bc marks the copies that broadcastToAdmins sends.)
\* broadcastToAdmins: walks activeUsers in insertion order and emits to every
\* entry whose role is admin; reading .role of an entry that holds no user
\* data throws, which ends the walk.
FirstBad(users) ==
  IF \E i \in DOMAIN users : users[i].val.nul
    THEN CHOOSE i \in DOMAIN users :
           users[i].val.nul /\ \A j \in 1..(i - 1) : ~users[j].val.nul
    ELSE Len(users) + 1

broadcastToAdmins(users, ev, call, reason, cl) ==
  LET n == FirstBad(users) - 1
      adm == SelectSeq(SubSeq(users, 1, n), LAMBDA e : e.val.role = "admin")
  IN  [emits |-> [i \in DOMAIN adm |->
                    [Emit(ev, adm[i].key, call, reason, cl) EXCEPT !.bc = TRUE]],
       threw |-> FirstBad(users) <= Len(users)]

\* ----------------------------------------------------------------- stores
NoRecord == [found |-> FALSE, socketId |-> Null]

\* User.findById
FindById(u) ==
  IF u \in DirUsers THEN [found |-> TRUE, socketId |-> userDir[u].socketId]
                    ELSE NoRecord

\* User.findByIdAndUpdate(id, {isOnline, socketId}): no record, no change.
UserUpdate(dir, u, online, sid) ==
  IF u \in DirUsers THEN [dir EXCEPT ![u] = [isOnline |-> online, socketId |-> sid]]
                    ELSE dir

\* ------------------------------------------------------------------ tasks
\* A suspended handler: where it waits (pc) and the locals it will use.
NewTask(op, sock) ==
  [op |-> op, sock |-> sock, pc |-> "-", user |-> NullData,
   callerId |-> Null, calleeId |-> Null, call |-> 0, callee |-> NoRecord,
   cursor |-> 0, duration |-> 0, endTime |-> 0,
   callerName |-> Null, callerUser |-> Null]

InFlight == BagToSet(tasks)

\* The suspended handlers the event loop can still resume.
Runnable == IF escaped THEN {} ELSE InFlight

BagOf(e, n) == [x \in {e} |-> n]

\* The handler invocation t is resumed and suspends again as t2 / returns.
Suspend(t, t2) == (tasks (-) BagOf(t, 1)) (+) BagOf(t2, 1)
Return(t) == tasks (-) BagOf(t, 1)

\* An event starts one handler per connection block.
NumBlocks == Cardinality(ConnectionBlocks)

Now == nEvents * TickMs

DurationInMs(startTime, endTime) == endTime - startTime

\* Math.floor((endTime - callInfo.startTime) / 1000)
Duration(startTime, endTime) == (endTime - startTime) \div MsPerSecond

Init ==
  /\ activeUsers = <<>>
  /\ activeCalls = {}
  /\ callInfo = <<>>
  /\ userDir = [u \in DirUsers |-> [isOnline |-> FALSE, socketId |-> Null]]
  /\ callDb = <<>>
  /\ tasks = EmptyBag
  /\ closed = {}
  /\ emitted = EmptyBag
  /\ callWrites = EmptyBag
  /\ dirWrites = EmptyBag
  /\ hist = <<>>
  /\ nEvents = 0
  /\ nFailures = 0
  /\ escaped = FALSE

\* No process.on('uncaughtException') is installed: an exception that leaves
\* a handler ends the process, and with it every event and every handler.
CanDispatch(s) ==
  /\ ~escaped
  /\ s \notin closed
  /\ nEvents < MaxEvents
  /\ BagCardinality(tasks) <= MaxPending

\* ------------------------------------------------------------ user-joined
\* Synchronous part: activeUsers.set(socket.id, userData), then the read of
\* userData.id, which throws on a missing payload (caught, handler over).
UserJoined(s, data) ==
  /\ CanDispatch(s)
  /\ nEvents' = nEvents + 1
  /\ activeUsers' = MapSet(activeUsers, s, data)
  /\ tasks' = IF data.nul THEN tasks
              ELSE tasks (+) BagOf([NewTask("user-joined", s) EXCEPT
                                      !.pc = "ujUpdate", !.user = data], NumBlocks)
  /\ UNCHANGED <<escaped, activeCalls, callInfo, userDir, callDb, closed, emitted,
                 callWrites, dirWrites, hist, nFailures>>

UjTailReplaying(t, pre) ==
  LET bc == broadcastToAdmins(activeUsers, "user-status-update", 0, "online", closed)
      all == SetToBag({Emit("active-users", x, 0, "-", closed) : x \in Sockets \ closed})
      old == IF t.user.role = "admin"
               THEN SetToBag({[Emit("new-call", t.sock, k, "-", closed)
                                 EXCEPT !.bc = TRUE] : k \in activeCalls})
               ELSE EmptyBag
  IN  /\ emitted' = emitted (+) pre (+) SeqToBag(bc.emits) (+) old
                       (+) (IF bc.threw THEN EmptyBag ELSE all)
      /\ tasks' = Return(t)

\* The rest of the handler once the awaits are over: doctor-info for a doctor,
\* broadcast user-status-update (a throw ends the handler), io.emit('active-users').
UjTail(t, pre) ==
  LET bc == broadcastToAdmins(activeUsers, "user-status-update", 0, "online", closed)
      all == SetToBag({Emit("active-users", x, 0, "-", closed) : x \in Sockets \ closed})
  IN  /\ emitted' = emitted (+) pre (+) SeqToBag(bc.emits)
                       (+) (IF bc.threw THEN EmptyBag ELSE all)
      /\ tasks' = Return(t)

\* await User.findByIdAndUpdate(userData.id, {isOnline: true, socketId}) returned.
UjUpdateDone(t) ==
  /\ t.pc = "ujUpdate"
  /\ userDir' = UserUpdate(userDir, t.user.id, TRUE, t.sock)
  /\ dirWrites' = dirWrites (+)
       BagOf([user |-> t.user.id, online |-> TRUE, sock |-> t.sock], 1)
  /\ IF t.user.role = "doctor"
       THEN /\ tasks' = Suspend(t, [t EXCEPT !.pc = "ujFetch"])
            /\ UNCHANGED emitted
       ELSE UjTail(t, EmptyBag)
  /\ UNCHANGED <<escaped, activeUsers, activeCalls, callInfo, callDb, closed, callWrites,
                 hist, nEvents, nFailures>>

\* await User.findById(userData.id).select(...) returned: doctor-info.
UjFetchDone(t) ==
  /\ t.pc = "ujFetch"
  /\ UjTail(t, BagOf(Emit("doctor-info", t.sock, 0, "-", closed), 1))
  /\ UNCHANGED <<escaped, activeUsers, activeCalls, callInfo, userDir, callDb, closed,
                 callWrites, dirWrites, hist, nEvents, nFailures>>

\* ---------------------------------------------------------- initiate-call
\* const { callerId, calleeId, callerName } = data, then the lookup of the
\* callee is awaited.
InitiateCall(s, data) ==
  /\ CanDispatch(s)
  /\ nEvents' = nEvents + 1
  /\ tasks' = tasks (+) BagOf([NewTask("initiate-call", s) EXCEPT
                                 !.pc = "icFindCallee", !.callerId = data.callerId,
                                 !.calleeId = data.calleeId,
                                 !.callerName = data.callerName], NumBlocks)
  /\ UNCHANGED <<escaped, activeUsers, activeCalls, callInfo, userDir, callDb, closed,
                 emitted, callWrites, dirWrites, hist, nFailures>>

CalleeOfflineNoSocketCheck(callee) == ~callee.found

\* if (!callee || !callee.socketId)
CalleeOffline(callee) == ~callee.found \/ callee.socketId = Null

\* const callee = await User.findById(calleeId) returned.
IcFindCalleeDone(t) ==
  /\ t.pc = "icFindCallee"
  /\ LET callee == FindById(t.calleeId)
     IN  IF CalleeOffline(callee)
           THEN /\ emitted' = emitted (+)
                      BagOf(Emit("call-error", t.sock, 0, "User is offline", closed), 1)
                /\ tasks' = Return(t)
           ELSE /\ tasks' = Suspend(t, [t EXCEPT !.pc = "icFindCaller",
                                                 !.callee = callee])
                /\ UNCHANGED emitted
  /\ UNCHANGED <<escaped, activeUsers, activeCalls, callInfo, userDir, callDb, closed,
                 callWrites, dirWrites, hist, nEvents, nFailures>>

\* a || b: b when a is undefined, null or the empty string.
Or(a, b) == IF a # Null THEN a ELSE b

\* doc.username || doc.name || doc.email
DocName(u) == Or(Or(Profile(u).username, Profile(u).name), Profile(u).email)

CallerNameNoPlaceholder(callerName, callerUser) ==
  Or(callerName, IF callerUser # Null THEN DocName(callerUser) ELSE Null)

\* callerName || (callerUser && (callerUser.username || callerUser.name ||
\* callerUser.email)) || 'Unknown'; callerUser is the id of the document the
\* lookup returned, Null when it returned nothing or threw.
CallerName(callerName, callerUser) ==
  Or(Or(callerName, IF callerUser # Null THEN DocName(callerUser) ELSE Null), "Unknown")

\* callee.username || callee.name || callee.email || 'Unknown'
CalleeName(calleeId) == Or(DocName(calleeId), "Unknown")

\* callerUser = await User.findById(callerId) returned (its own try/catch).
IcFindCallerDone(t) ==
  /\ t.pc = "icFindCaller"
  /\ tasks' = Suspend(t, [t EXCEPT !.pc = "icSave",
                                   !.callerUser = IF t.callerId \in DirUsers
                                                    THEN t.callerId ELSE Null])
  /\ UNCHANGED <<escaped, activeUsers, activeCalls, callInfo, userDir, callDb, closed,
                 emitted, callWrites, dirWrites, hist, nEvents, nFailures>>

IcSaveDoneNoSession(t) ==
  /\ t.pc = "icSave"
  /\ LET k == Len(callDb) + 1
         bc == broadcastToAdmins(activeUsers, "new-call", k, "-", closed)
     IN  /\ callDb' = Append(callDb, [status |-> "initiated", endTime |-> {},
                                      duration |-> {}])
         /\ callInfo' = Append(callInfo,
              [caller |-> t.sock, callee |-> t.callee.socketId,
               callerId |-> t.callerId, calleeId |-> t.calleeId,
               callerName |-> CallerName(t.callerName, t.callerUser),
               calleeName |-> CalleeName(t.calleeId),
               status |-> "initiated", startTime |-> Now])
         /\ activeCalls' = activeCalls
         /\ hist' = Append(hist, <<>>)
         /\ emitted' = emitted
              (+) BagOf([Emit("incoming-call", t.callee.socketId, k, "-", closed)
                           EXCEPT !.callerId = t.callerId,
                                  !.callerName = CallerName(t.callerName,
                                                            t.callerUser)], 1)
              (+) SeqToBag(bc.emits)
              (+) (IF bc.threw
                     THEN BagOf(Emit("call-error", t.sock, 0,
                                     "Failed to initiate call", closed), 1)
                     ELSE EmptyBag)
  /\ tasks' = Return(t)
  /\ UNCHANGED <<escaped, activeUsers, userDir, closed, callWrites, dirWrites, nEvents,
                 nFailures>>

\* await call.save() returned: the record exists; activeCalls.set, incoming-call
\* to the callee's socket, new-call to admins (a throw there goes to the catch,
\* which emits call-error 'Failed to initiate call').
IcSaveDone(t) ==
  /\ t.pc = "icSave"
  /\ LET k == Len(callDb) + 1
         bc == broadcastToAdmins(activeUsers, "new-call", k, "-", closed)
     IN  /\ callDb' = Append(callDb, [status |-> "initiated", endTime |-> {},
                                      duration |-> {}])
         /\ callInfo' = Append(callInfo,
              [caller |-> t.sock, callee |-> t.callee.socketId,
               callerId |-> t.callerId, calleeId |-> t.calleeId,
               callerName |-> CallerName(t.callerName, t.callerUser),
               calleeName |-> CalleeName(t.calleeId),
               status |-> "initiated", startTime |-> Now])
         /\ activeCalls' = activeCalls \cup {k}
         /\ hist' = Append(hist, <<>>)
         /\ emitted' = emitted
              (+) BagOf([Emit("incoming-call", t.callee.socketId, k, "-", closed)
                           EXCEPT !.callerId = t.callerId,
                                  !.callerName = CallerName(t.callerName,
                                                            t.callerUser)], 1)
              (+) SeqToBag(bc.emits)
              (+) (IF bc.threw
                     THEN BagOf(Emit("call-error", t.sock, 0,
                                     "Failed to initiate call", closed), 1)
                     ELSE EmptyBag)
  /\ tasks' = Return(t)
  /\ UNCHANGED <<escaped, activeUsers, userDir, closed, callWrites, dirWrites, nEvents,
                 nFailures>>

\* --------------------------------------------- accept / reject / end-call
\* A client event on call k: noted in the call's history, with its sender,
\* whether no handler was working on k when it arrived (quiet) and whether
\* its handler found the call in activeCalls (started).
Quiet(k) == \A t \in InFlight : t.call # k

Noted(k, op, s) ==
  IF k \in DOMAIN hist
    THEN [hist EXCEPT ![k] = Append(@, [op |-> op, sock |-> s, quiet |-> Quiet(k),
                                         started |-> k \in activeCalls])]
    ELSE hist

AcceptCallSilent(s, k) ==
  /\ CanDispatch(s)
  /\ nEvents' = nEvents + 1
  /\ hist' = Noted(k, "accept-call", s)
  /\ IF k \notin activeCalls
       THEN UNCHANGED <<emitted, tasks, callInfo>>
       ELSE /\ callInfo' = [callInfo EXCEPT ![k].status = "accepted"]
            /\ tasks' = tasks (+) BagOf([NewTask("accept-call", s) EXCEPT
                                           !.pc = "acUpdate", !.call = k], NumBlocks)
            /\ UNCHANGED emitted
  /\ UNCHANGED <<escaped, activeUsers, activeCalls, userDir, callDb, closed, callWrites,
                 dirWrites, nFailures>>

\* Synchronous part of accept-call: call-error when the Map has no callId;
\* else callInfo.status = 'accepted' and the store update is awaited.
AcceptCall(s, k) ==
  /\ CanDispatch(s)
  /\ nEvents' = nEvents + 1
  /\ hist' = Noted(k, "accept-call", s)
  /\ IF k \notin activeCalls
       THEN /\ emitted' = emitted (+)
                  BagOf(Emit("call-error", s, k, "Call not found", closed), NumBlocks)
            /\ UNCHANGED <<tasks, callInfo>>
       ELSE /\ callInfo' = [callInfo EXCEPT ![k].status = "accepted"]
            /\ tasks' = tasks (+) BagOf([NewTask("accept-call", s) EXCEPT
                                           !.pc = "acUpdate", !.call = k], NumBlocks)
            /\ UNCHANGED emitted
  /\ UNCHANGED <<escaped, activeUsers, activeCalls, userDir, callDb, closed, callWrites,
                 dirWrites, nFailures>>

\* Call.findByIdAndUpdate(callId, {status}) applied to the record.
CallUpdate(db, k, status) == [db EXCEPT ![k].status = status]

\* Call.findByIdAndUpdate(callId, {status: 'rejected', endTime}): the fields
\* the update does not name keep their value.
CallReject(db, k, endTime) ==
  [db EXCEPT ![k].status = "rejected", ![k].endTime = {endTime}]

\* Call.findByIdAndUpdate(callId, {status: 'ended', endTime, duration})
CallEnd(db, k, endTime, duration) ==
  [db EXCEPT ![k].status = "ended", ![k].endTime = {endTime},
             ![k].duration = {duration}]

Wrote(k, status) == BagOf([call |-> k, status |-> status], 1)

\* await Call.findByIdAndUpdate(callId, {status: 'accepted'}) returned.
AcUpdateDone(t) ==
  /\ t.pc = "acUpdate"
  /\ LET bc == broadcastToAdmins(activeUsers, "call-status-update", t.call, "-", closed)
     IN  /\ callDb' = CallUpdate(callDb, t.call, "accepted")
         /\ callWrites' = callWrites (+) Wrote(t.call, "accepted")
         /\ emitted' = emitted
              (+) BagOf(Emit("call-accepted", callInfo[t.call].caller, t.call, "-",
                             closed), 1)
              (+) SeqToBag(bc.emits)
  /\ tasks' = Return(t)
  /\ UNCHANGED <<escaped, activeUsers, activeCalls, callInfo, userDir, closed, dirWrites,
                 hist, nEvents, nFailures>>

\* Synchronous part of reject-call and of end-call: return when the Map has
\* no callId, else take the end time (end-call: and compute the duration)
\* and await the store update.
RejectCall(s, k) ==
  /\ CanDispatch(s)
  /\ nEvents' = nEvents + 1
  /\ hist' = Noted(k, "reject-call", s)
  /\ tasks' = IF k \notin activeCalls THEN tasks
              ELSE tasks (+) BagOf([NewTask("reject-call", s) EXCEPT
                                      !.pc = "rjUpdate", !.call = k,
                                      !.endTime = Now'], NumBlocks)
  /\ UNCHANGED <<escaped, activeUsers, activeCalls, callInfo, userDir, callDb, closed,
                 emitted, callWrites, dirWrites, nFailures>>

EndCallReporting(s, k) ==
  /\ CanDispatch(s)
  /\ nEvents' = nEvents + 1
  /\ hist' = Noted(k, "end-call", s)
  /\ IF k \notin activeCalls
       THEN /\ emitted' = emitted (+)
                  BagOf(Emit("call-error", s, k, "Call not found", closed), NumBlocks)
            /\ UNCHANGED tasks
       ELSE /\ tasks' = tasks (+) BagOf([NewTask("end-call", s) EXCEPT
                                           !.pc = "ecUpdate", !.call = k,
                                           !.endTime = Now',
                                           !.duration = Duration(callInfo[k].startTime, Now')],
                                        NumBlocks)
            /\ UNCHANGED emitted
  /\ UNCHANGED <<escaped, activeUsers, activeCalls, callInfo, userDir, callDb, closed,
                 callWrites, dirWrites, nFailures>>

EndCall(s, k) ==
  /\ CanDispatch(s)
  /\ nEvents' = nEvents + 1
  /\ hist' = Noted(k, "end-call", s)
  /\ tasks' = IF k \notin activeCalls THEN tasks
              ELSE tasks (+) BagOf([NewTask("end-call", s) EXCEPT
                                      !.pc = "ecUpdate", !.call = k,
                                      !.endTime = Now',
                                      !.duration = Duration(callInfo[k].startTime, Now')],
                                   NumBlocks)
  /\ UNCHANGED <<escaped, activeUsers, activeCalls, callInfo, userDir, callDb, closed,
                 emitted, callWrites, dirWrites, nFailures>>

\* await Call.findByIdAndUpdate(callId, {status: 'rejected', endTime}) returned.
RjUpdateDone(t) ==
  /\ t.pc = "rjUpdate"
  /\ LET bc == broadcastToAdmins(activeUsers, "call-ended", t.call, "rejected", closed)
     IN  /\ callDb' = CallReject(callDb, t.call, t.endTime)
         /\ callWrites' = callWrites (+) Wrote(t.call, "rejected")
         /\ activeCalls' = activeCalls \ {t.call}
         /\ emitted' = emitted
              (+) BagOf(Emit("call-rejected", callInfo[t.call].caller, t.call, "-",
                             closed), 1)
              (+) SeqToBag(bc.emits)
  /\ tasks' = Return(t)
  /\ UNCHANGED <<escaped, activeUsers, callInfo, userDir, closed, dirWrites, hist, nEvents,
                 nFailures>>

\* await Call.findByIdAndUpdate(callId, {status: 'ended', endTime, duration}) returned:
\* call-ended {callId} to both parties, call-ended {callId, duration} to admins.
EcUpdateDone(t) ==
  /\ t.pc = "ecUpdate"
  /\ LET b0 == broadcastToAdmins(activeUsers, "call-ended", t.call, "-", closed)
         bc == [b0 EXCEPT !.emits = [i \in DOMAIN b0.emits |->
                                       [b0.emits[i] EXCEPT !.dur = {t.duration}]]]
     IN  /\ callDb' = CallEnd(callDb, t.call, t.endTime, t.duration)
         /\ callWrites' = callWrites (+) Wrote(t.call, "ended")
         /\ activeCalls' = activeCalls \ {t.call}
         /\ emitted' = emitted
              (+) BagOf(Emit("call-ended", callInfo[t.call].caller, t.call, "-", closed), 1)
              (+) BagOf(Emit("call-ended", callInfo[t.call].callee, t.call, "-", closed), 1)
              (+) SeqToBag(bc.emits)
  /\ tasks' = Return(t)
  /\ UNCHANGED <<escaped, activeUsers, callInfo, userDir, closed, dirWrites, hist, nEvents,
                 nFailures>>

\* ------------------------------------------- offer / answer / ice-candidate
RelayTargetsWithSender(s, target) == {target} \cap Sockets

\* socket.to(target): the sockets in room target, the sending socket excepted;
\* every socket is in the room named by its own id and in no other.
RelayTargets(s, target) == ({target} \cap Sockets) \ {s}

\* The handlers have no await and no try / catch: reading data.target of a
\* missing payload throws out of the first handler that runs; else each
\* block's handler emits the event, with the payload field and socket.id.
Relay(s, ev, data) ==
  /\ CanDispatch(s)
  /\ nEvents' = nEvents + 1
  /\ IF data.nul
       THEN /\ escaped' = TRUE
            /\ UNCHANGED emitted
       ELSE /\ escaped' = escaped
            /\ emitted' = emitted (+)
                 [e \in {[Emit(ev, x, 0, "-", closed) EXCEPT
                            !.sender = s, !.body = data.body] :
                          x \in RelayTargets(s, data.target)} |-> NumBlocks]
  /\ UNCHANGED <<activeUsers, activeCalls, callInfo, userDir, callDb, tasks, closed,
                 callWrites, dirWrites, hist, nFailures>>

\* ------------------------------------------------------- get-active-calls
MayListCallsAnyUser(users, s) == MapHas(users, s) /\ ~MapGet(users, s).nul

\* if (userData && userData.role === 'admin')
MayListCalls(users, s) ==
  MapHas(users, s) /\ ~MapGet(users, s).nul /\ MapGet(users, s).role = "admin"

\* The handler has no await: socket.emit('active-calls', ...) or nothing.
GetActiveCalls(s) ==
  /\ CanDispatch(s)
  /\ nEvents' = nEvents + 1
  /\ emitted' = IF MayListCalls(activeUsers, s)
                  THEN emitted (+) BagOf(Emit("active-calls", s, 0, "-", closed),
                                         NumBlocks)
                  ELSE emitted
  /\ UNCHANGED <<escaped, activeUsers, activeCalls, callInfo, userDir, callDb, tasks, closed,
                 callWrites, dirWrites, hist, nFailures>>

\* ------------------------------------------------------------- disconnect
Involves(c, s) == c.caller = s \/ c.callee = s

Min(S) == CHOOSE x \in S : \A y \in S : x <= y

\* Synchronous part: nothing happens unless activeUsers holds user data for
\* the socket; else the isOnline=false update is awaited.
Disconnect(s) ==
  /\ CanDispatch(s)
  /\ nEvents' = nEvents + 1
  /\ closed' = closed \cup {s}
  /\ hist' = [k \in DOMAIN hist |->
                IF k \in activeCalls /\ Involves(callInfo[k], s)
                  THEN Append(hist[k], [op |-> "disconnect", sock |-> s,
                         quiet |-> Quiet(k),
                         started |-> MapHas(activeUsers, s)
                                       /\ ~MapGet(activeUsers, s).nul])
                  ELSE hist[k]]
  /\ tasks' = IF MapHas(activeUsers, s) /\ ~MapGet(activeUsers, s).nul
                THEN tasks (+) BagOf([NewTask("disconnect", s) EXCEPT
                                        !.pc = "dcOffline",
                                        !.user = MapGet(activeUsers, s)], NumBlocks)
                ELSE tasks
  /\ UNCHANGED <<escaped, activeUsers, activeCalls, callInfo, userDir, callDb, emitted,
                 callWrites, dirWrites, nFailures>>

\* The for-of loop over activeCalls.entries() from the iterator's position up
\* to its next await (end time and duration are taken before it), and past
\* the loop: user-status-update to admins, then
\* activeUsers.delete(socket.id).
DcContinue(t, calls, pre) ==
  LET nxt == {k \in calls : k > t.cursor /\ Involves(callInfo[k], t.sock)}
      bc == broadcastToAdmins(activeUsers, "user-status-update", 0, "offline", closed)
  IN  IF nxt # {}
        THEN /\ tasks' = Suspend(t, [t EXCEPT
                          !.pc = "dcWrite", !.call = Min(nxt), !.cursor = Min(nxt),
                          !.endTime = Now,
                          !.duration = Duration(callInfo[Min(nxt)].startTime, Now)])
             /\ emitted' = emitted (+) pre
             /\ UNCHANGED activeUsers
        ELSE /\ tasks' = Return(t)
             /\ emitted' = emitted (+) pre (+) SeqToBag(bc.emits)
             /\ activeUsers' = IF bc.threw THEN activeUsers
                               ELSE MapDelete(activeUsers, t.sock)

\* await User.findByIdAndUpdate(userData.id, {isOnline: false, socketId: null}) returned.
DcOfflineDone(t) ==
  /\ t.pc = "dcOffline"
  /\ userDir' = UserUpdate(userDir, t.user.id, FALSE, Null)
  /\ dirWrites' = dirWrites (+)
       BagOf([user |-> t.user.id, online |-> FALSE, sock |-> t.sock], 1)
  /\ DcContinue(t, activeCalls, EmptyBag)
  /\ UNCHANGED <<escaped, activeCalls, callInfo, callDb, closed, callWrites, hist, nEvents,
                 nFailures>>

\* await Call.findByIdAndUpdate(callId, {status: 'ended', ...}) returned inside
\* the loop: call-ended to the other party, activeCalls.delete, call-ended to
\* admins (a throw there ends the handler), then on with the loop.
DcWriteDone(t) ==
  /\ t.pc = "dcWrite"
  /\ LET c == callInfo[t.call]
         other == IF c.caller = t.sock THEN c.callee ELSE c.caller
         bc == broadcastToAdmins(activeUsers, "call-ended", t.call, "disconnect", closed)
         out == BagOf(Emit("call-ended", other, t.call, "disconnect", closed), 1)
                  (+) SeqToBag(bc.emits)
     IN  /\ callDb' = CallEnd(callDb, t.call, t.endTime, t.duration)
         /\ callWrites' = callWrites (+) Wrote(t.call, "ended")
         /\ activeCalls' = activeCalls \ {t.call}
         /\ IF bc.threw
              THEN /\ tasks' = Return(t)
                   /\ emitted' = emitted (+) out
                   /\ UNCHANGED activeUsers
              ELSE DcContinue(t, activeCalls \ {t.call}, out)
  /\ UNCHANGED <<escaped, callInfo, userDir, closed, dirWrites, hist, nEvents, nFailures>>

\* ------------------------------------------------------- a store call throws
StoreThrowsUnreported(t) ==
  /\ t.pc # "hung"
  /\ nFailures < MaxFailures
  /\ nFailures' = nFailures + 1
  /\ tasks' = IF t.pc = "icFindCaller" THEN Suspend(t, [t EXCEPT !.pc = "icSave"])
              ELSE Return(t)
  /\ UNCHANGED <<escaped, activeUsers, activeCalls, callInfo, userDir, callDb, closed,
                 emitted, callWrites, dirWrites, hist, nEvents>>

StoreThrowsRollingBack(t) ==
  /\ t.pc # "hung"
  /\ nFailures < MaxFailures
  /\ nFailures' = nFailures + 1
  /\ tasks' = IF t.pc = "icFindCaller" THEN Suspend(t, [t EXCEPT !.pc = "icSave"])
              ELSE Return(t)
  /\ emitted' = IF t.pc \in {"icFindCallee", "icSave"}
                  THEN emitted (+) BagOf(Emit("call-error", t.sock, 0,
                                              "Failed to initiate call", closed), 1)
                  ELSE emitted
  /\ activeUsers' = IF t.op = "user-joined" THEN MapDelete(activeUsers, t.sock)
                    ELSE activeUsers
  /\ UNCHANGED <<escaped, activeCalls, callInfo, userDir, callDb, closed,
                 callWrites, dirWrites, hist, nEvents>>

\* The awaited store call of t rejects: the handler's catch logs it; the catch
\* of initiate-call also emits call-error, and the lookup of the caller has a
\* catch of its own that swallows the error.
StoreThrows(t) ==
  /\ t.pc # "hung"
  /\ nFailures < MaxFailures
  /\ nFailures' = nFailures + 1
  /\ tasks' = IF t.pc = "icFindCaller" THEN Suspend(t, [t EXCEPT !.pc = "icSave"])
              ELSE Return(t)
  /\ emitted' = IF t.pc \in {"icFindCallee", "icSave"}
                  THEN emitted (+) BagOf(Emit("call-error", t.sock, 0,
                                              "Failed to initiate call", closed), 1)
                  ELSE emitted
  /\ UNCHANGED <<escaped, activeUsers, activeCalls, callInfo, userDir, callDb, closed,
                 callWrites, dirWrites, hist, nEvents>>

\* The awaited store call of t never settles: no await in the module has a
\* timeout, so the handler stays suspended.
StoreHangs(t) ==
  /\ t.pc # "hung"
  /\ nFailures < MaxFailures
  /\ nFailures' = nFailures + 1
  /\ tasks' = Suspend(t, [t EXCEPT !.pc = "hung"])
  /\ UNCHANGED <<escaped, activeUsers, activeCalls, callInfo, userDir, callDb, closed,
                 emitted, callWrites, dirWrites, hist, nEvents>>

\* A suspended handler is resumed when its store call returns or throws.
UjUpdateDoneStep == \E t \in Runnable : UjUpdateDone(t)
UjFetchDoneStep == \E t \in Runnable : UjFetchDone(t)
IcFindCalleeDoneStep == \E t \in Runnable : IcFindCalleeDone(t)
IcFindCallerDoneStep == \E t \in Runnable : IcFindCallerDone(t)
IcSaveDoneStep == \E t \in Runnable : IcSaveDone(t)
AcUpdateDoneStep == \E t \in Runnable : AcUpdateDone(t)
RjUpdateDoneStep == \E t \in Runnable : RjUpdateDone(t)
EcUpdateDoneStep == \E t \in Runnable : EcUpdateDone(t)
DcOfflineDoneStep == \E t \in Runnable : DcOfflineDone(t)
DcWriteDoneStep == \E t \in Runnable : DcWriteDone(t)
StoreThrowsStep == \E t \in Runnable : StoreThrows(t)
StoreHangsStep == \E t \in Runnable : StoreHangs(t)

Next ==
  \/ \E s \in Sockets : \E d \in JoinPayloads(s) : UserJoined(s, d)
  \/ \E s \in Callers, data \in InitiatePayloads : InitiateCall(s, data)
  \/ \E s \in Answerers, k \in CallIdInputs : AcceptCall(s, k)
  \/ \E s \in Answerers, k \in CallIdInputs : RejectCall(s, k)
  \/ \E s \in Callers \cup Answerers, k \in CallIdInputs : EndCall(s, k)
  \/ \E s \in RelaySenders, ev \in RelayEvents :
       \E data \in RelayPayloads(s, ev) : Relay(s, ev, data)
  \/ \E s \in Sockets : GetActiveCalls(s)
  \/ \E s \in Sockets : Disconnect(s)
  \/ UjUpdateDoneStep
  \/ UjFetchDoneStep
  \/ IcFindCalleeDoneStep
  \/ IcFindCallerDoneStep
  \/ IcSaveDoneStep
  \/ AcUpdateDoneStep
  \/ RjUpdateDoneStep
  \/ EcUpdateDoneStep
  \/ DcOfflineDoneStep
  \/ DcWriteDoneStep
  \/ StoreThrowsStep
  \/ StoreHangsStep

Spec == Init /\ [][Next]_vars

\* A store call that settles resumes its handler: the event loop runs every
\* continuation whose promise has settled.
Settles ==
  \/ UjUpdateDoneStep
  \/ UjFetchDoneStep
  \/ IcFindCalleeDoneStep
  \/ IcFindCallerDoneStep
  \/ IcSaveDoneStep
  \/ AcUpdateDoneStep
  \/ RjUpdateDoneStep
  \/ EcUpdateDoneStep
  \/ DcOfflineDoneStep
  \/ DcWriteDoneStep

FairSpec == Spec /\ WF_vars(Settles)

\* ===================================================================== claims
\* Copies of the elements of a bag that satisfy P.
CountIn(bag, P(_)) ==
  BagCardinality([e \in {x \in DOMAIN bag : P(x)} |-> bag[e]])

\* The step resumes the suspended handler t and its store call did not throw.
Resumed(t) == CopiesIn(t, tasks') < CopiesIn(t, tasks) /\ nFailures' = nFailures

Terminal == {"rejected", "ended"}

\* The connections registered in activeUsers with role admin.
Admins(users) ==
  {users[i].key : i \in {j \in DOMAIN users : users[j].val.role = "admin"}}

TerminalWrites(k) == CountIn(callWrites, LAMBDA w : w.call = k /\ w.status \in Terminal)

\* Termination notices (call-rejected, call-ended) emitted to socket s as a
\* participant of call k.
Notices(k, s) ==
  CountIn(emitted, LAMBDA e : e.call = k /\ e.to = s /\ ~e.bc
                               /\ e.ev \in {"call-rejected", "call-ended"})

\* C1: the status of a call, in memory and in the Call collection, only moves
\* initiated -> accepted, initiated -> rejected, initiated -> ended or
\* accepted -> ended; a rejected or ended status is never changed and
\* accepted never becomes rejected.
Forward == {<<"initiated", "accepted">>, <<"initiated", "rejected">>,
            <<"initiated", "ended">>, <<"accepted", "ended">>}

C1_StatusMovesForward ==
  [][\A k \in DOMAIN callDb :
       /\ callDb'[k].status # callDb[k].status
            => <<callDb[k].status, callDb'[k].status>> \in Forward
       /\ callInfo'[k].status # callInfo[k].status
            => <<callInfo[k].status, callInfo'[k].status>> \in Forward]_vars

\* C2: after initiate-call and accept-call, a following reject-call is a
\* no-op: the session stays in activeCalls with status accepted, no terminal
\* update reaches the Call collection and no call-rejected or call-ended is
\* emitted for the call.
AcceptThenReject(k) ==
  /\ Len(hist[k]) = 2
  /\ hist[k][1].op = "accept-call" /\ hist[k][1].quiet
  /\ hist[k][2].op = "reject-call" /\ hist[k][2].quiet

C2_RejectAfterAcceptIsNoOp ==
  \A k \in DOMAIN hist :
    AcceptThenReject(k) =>
      /\ k \in activeCalls
      /\ callInfo[k].status = "accepted"
      /\ TerminalWrites(k) = 0
      /\ CountIn(emitted, LAMBDA e : e.call = k
                            /\ e.ev \in {"call-rejected", "call-ended"}) = 0

\* C3: when reject-call, end-call and the disconnect cleanup of one call
\* overlap, exactly one of them writes a terminal status and notifies: the
\* call gets at most one terminal update and each participant at most one
\* termination notice.
Raced(k) ==
  /\ \A i \in DOMAIN hist[k] : hist[k][i].op \in {"reject-call", "end-call", "disconnect"}
  /\ \E i, j \in DOMAIN hist[k] :
       /\ i < j
       /\ hist[k][i].op # hist[k][j].op
       /\ hist[k][i].started /\ hist[k][j].started
       /\ ~hist[k][j].quiet

C3_FirstTerminalWins ==
  \A k \in DOMAIN hist :
    Raced(k) =>
      /\ TerminalWrites(k) <= 1
      /\ Notices(k, callInfo[k].caller) <= 1
      /\ Notices(k, callInfo[k].callee) <= 1

\* C4: when the lookup of the callee returns no record, or a record without
\* socketId, initiate-call emits call-error 'User is offline' to the
\* initiator and nothing else, creates no call record and no session, and
\* the handler is over.
C4_OfflineCalleeYieldsPeerOffline ==
  [][\A t \in InFlight :
       (/\ t.pc = "icFindCallee"
        /\ Resumed(t)
        /\ (t.calleeId \notin DirUsers \/ userDir[t.calleeId].socketId = Null))
       => /\ emitted' = emitted (+) BagOf([ev |-> "call-error", to |-> t.sock,
                                           call |-> 0, reason |-> "User is offline",
                                           live |-> t.sock \notin closed,
                                           bc |-> FALSE, callerId |-> Null,
                                           callerName |-> Null,
                                           dur |-> {}, sender |-> Null,
                                           body |-> Null], 1)
          /\ callDb' = callDb
          /\ activeCalls' = activeCalls
          /\ callInfo' = callInfo
          /\ BagCardinality(tasks') = BagCardinality(tasks) - 1]_vars

\* An initiate-call toward an offline callee was answered, both for a user
\* without a record and for a user whose record has no socketId.
C4_Witness ==
  /\ \E e \in DOMAIN emitted : e.ev = "call-error" /\ e.reason = "User is offline"
  /\ callDb = <<>>
  /\ activeCalls = {}

\* C5: the cleanup of a dropped connection runs exactly once: at most one
\* isOnline=false update is applied for the connection, and exactly one once
\* its disconnect handlers are over.
OfflineWrites(s) == CountIn(dirWrites, LAMBDA w : w.sock = s /\ ~w.online)

HasJoined(s) == CountIn(dirWrites, LAMBDA w : w.sock = s /\ w.online) > 0

C5_CleanupExactlyOnce ==
  \A s \in Sockets :
    /\ OfflineWrites(s) <= 1
    /\ (s \in closed /\ HasJoined(s) /\ InFlight = {}) => OfflineWrites(s) = 1

\* C6: at most one session in activeCalls references a connection as caller
\* or callee.
C6_OneSessionPerConnection ==
  \A s \in Sockets :
    Cardinality({k \in activeCalls : Involves(callInfo[k], s)}) <= 1

\* C7: a participant that disconnects while the call is in activeCalls ends
\* the call: once the handlers are over the record is ended, the session is
\* gone, call-ended with reason disconnect went to the other participant,
\* and none went to the disconnected connection.
Other(k, s) == IF callInfo[k].caller = s THEN callInfo[k].callee ELSE callInfo[k].caller

C7_DisconnectEndsCall ==
  \A k \in DOMAIN hist : \A i \in DOMAIN hist[k] :
    (hist[k][i].op = "disconnect" /\ InFlight = {}) =>
      LET s == hist[k][i].sock
      IN  /\ callDb[k].status = "ended"
          /\ k \notin activeCalls
          /\ CountIn(emitted, LAMBDA e : e.ev = "call-ended" /\ e.call = k
                                /\ e.reason = "disconnect" /\ ~e.bc
                                /\ e.to = Other(k, s)) > 0
          /\ \A a \in Admins(activeUsers) \ {s} :
               CountIn(emitted, LAMBDA e : e.ev = "call-ended" /\ e.call = k
                                  /\ e.reason = "disconnect" /\ e.bc /\ e.to = a) > 0
          /\ s # Other(k, s) =>
               CountIn(emitted, LAMBDA e : e.ev = "call-ended" /\ e.call = k
                                  /\ e.reason = "disconnect" /\ e.to = s) = 0

\* C8: once the disconnect handlers of a connection are over, no session in
\* activeCalls references the connection.
C8_NoSessionOfClosedConnection ==
  \A s \in closed :
    (\A t \in InFlight : ~(t.op = "disconnect" /\ t.sock = s)) =>
      \A k \in activeCalls : ~Involves(callInfo[k], s)

\* C9: end-call events on one call, each arriving when no handler works on
\* the call, apply one 'ended' update and one round of call-ended notices.
OnlyEnds(k) ==
  /\ hist[k] # <<>>
  /\ \A i \in DOMAIN hist[k] : hist[k][i].op = "end-call" /\ hist[k][i].quiet

C9_EndCallIdempotent ==
  \A k \in DOMAIN hist :
    OnlyEnds(k) =>
      /\ CountIn(callWrites, LAMBDA w : w.call = k /\ w.status = "ended") <= 1
      /\ \A s \in Sockets : Notices(k, s) <= Cardinality({r \in {"caller", "callee"} :
                                                             callInfo[k][r] = s})

\* C10: when accept-call is the only event on a call since its creation and
\* its store update returns, the session is in activeCalls with status
\* accepted, the record is accepted, call-accepted goes to the caller's
\* socket and call-status-update to every admin in activeUsers.
Got(ev, k, s) ==
  CountIn(emitted', LAMBDA e : e.ev = ev /\ e.call = k /\ e.to = s)
    > CountIn(emitted, LAMBDA e : e.ev = ev /\ e.call = k /\ e.to = s)

C10_AcceptOutcome ==
  [][\A t \in InFlight :
       (/\ t.pc = "acUpdate"
        /\ Resumed(t)
        /\ Len(hist[t.call]) = 1
        /\ hist[t.call][1].op = "accept-call")
       => /\ t.call \in activeCalls'
          /\ callInfo'[t.call].status = "accepted"
          /\ callDb'[t.call].status = "accepted"
          /\ Got("call-accepted", t.call, callInfo[t.call].caller)
          /\ \A a \in Admins(activeUsers) : Got("call-status-update", t.call, a)]_vars

\* The awaited store call of the suspended handler t threw in this step.
Threw(t) ==
  /\ CopiesIn(t, tasks') < CopiesIn(t, tasks)
  /\ nFailures' > nFailures
  /\ CopiesIn([t EXCEPT !.pc = "hung"], tasks') = CopiesIn([t EXCEPT !.pc = "hung"], tasks)

\* The step emits a copy of broadcastToAdmins' event ev for call k to socket s.
GotBc(ev, k, s) ==
  CountIn(emitted', LAMBDA e : e.ev = ev /\ e.call = k /\ e.to = s /\ e.bc)
    > CountIn(emitted, LAMBDA e : e.ev = ev /\ e.call = k /\ e.to = s /\ e.bc)

\* C11: in initiate -> accept -> end-call, call-accepted reaches the caller
\* only after incoming-call carrying the callerId was emitted to the callee,
\* and once end-call has removed the session both the caller's and the
\* callee's socket have been sent a call-ended that carries a duration, a
\* non-negative integer.
AcceptThenEnd(k) ==
  /\ Len(hist[k]) = 2
  /\ hist[k][1].op = "accept-call" /\ hist[k][1].quiet
  /\ hist[k][1].sock = callInfo[k].callee
  /\ hist[k][2].op = "end-call" /\ hist[k][2].quiet
  /\ hist[k][2].sock \in {callInfo[k].caller, callInfo[k].callee}

C11_CallLifecycle ==
  \A k \in DOMAIN hist :
    /\ (\E e \in DOMAIN emitted : e.ev = "call-accepted" /\ e.call = k)
         => \E e \in DOMAIN emitted :
              /\ e.ev = "incoming-call" /\ e.call = k
              /\ e.to = callInfo[k].callee
              /\ e.callerId = callInfo[k].callerId
    /\ (AcceptThenEnd(k) /\ k \notin activeCalls)
         => \A s \in {callInfo[k].caller, callInfo[k].callee} :
              \E e \in DOMAIN emitted :
                /\ e.ev = "call-ended" /\ e.call = k /\ e.to = s
                /\ e.dur # {}
                /\ \A d \in e.dur : d \in Nat

\* C12: active-calls is emitted only to the sender of get-active-calls and
\* only when activeUsers holds an entry with role admin for it; a sender
\* without an entry, or with another role, is sent nothing.
C12_OnlyAdminsListCalls ==
  [][/\ \A e \in DOMAIN emitted' :
          (e.ev = "active-calls" /\ CopiesIn(e, emitted') > CopiesIn(e, emitted))
            => e.to \in Admins(activeUsers)
     /\ \A s \in Sockets :
          GetActiveCalls(s) =>
            IF s \in Admins(activeUsers)
              THEN /\ CountIn(emitted', LAMBDA e : e.ev = "active-calls" /\ e.to = s)
                        > CountIn(emitted, LAMBDA e : e.ev = "active-calls" /\ e.to = s)
                   /\ \A e \in DOMAIN emitted' :
                        CopiesIn(e, emitted') > CopiesIn(e, emitted)
                          => (e.ev = "active-calls" /\ e.to = s)
              ELSE emitted' = emitted]_vars

\* An admin has been sent active-calls, a call is active and a connection
\* with another role is registered.
C12_Witness ==
  /\ \E e \in DOMAIN emitted : e.ev = "active-calls" /\ e.to \in Admins(activeUsers)
  /\ activeCalls # {}
  /\ \E i \in DOMAIN activeUsers : ~activeUsers[i].val.nul /\ activeUsers[i].val.role # "admin"

\* C13: every broadcastToAdmins call reaches exactly the sockets registered
\* in activeUsers with role admin, each once: the broadcast copies of a step
\* go to admins only, one copy each, and the step in which initiate-call,
\* accept-call, reject-call, end-call or the disconnect cleanup broadcasts
\* sends every registered admin its copy.
BroadcastCall(t) == IF t.pc = "icSave" THEN Len(callDb) + 1 ELSE t.call

C13_BroadcastReachesExactlyAdmins ==
  [][/\ \A e \in DOMAIN emitted' :
          (e.bc /\ CopiesIn(e, emitted') > CopiesIn(e, emitted))
            => /\ e.to \in Admins(activeUsers)
               /\ CopiesIn(e, emitted') = CopiesIn(e, emitted) + 1
     /\ \A t \in InFlight :
          (Resumed(t) /\ t.pc \in {"icSave", "acUpdate", "rjUpdate", "ecUpdate", "dcWrite"})
            => \A a \in Admins(activeUsers) :
                 \E ev \in {"new-call", "call-status-update", "call-ended"} :
                   GotBc(ev, BroadcastCall(t), a)]_vars

\* C14: new-call for a call is emitted only in the step that creates the
\* call, and only to sockets registered as admin in activeUsers at that
\* step: a socket that registers as admin later is never sent it.
C14_NoReplayOfNewCall ==
  [][\A e \in DOMAIN emitted' :
       (e.ev = "new-call" /\ CopiesIn(e, emitted') > CopiesIn(e, emitted))
         => /\ e.call \notin DOMAIN callDb
            /\ e.call \in DOMAIN callDb'
            /\ e.to \in Admins(activeUsers)]_vars

\* An admin is registered and was sent call-status-update for an active call
\* but not the new-call of that call, which was broadcast before it joined.
C14_Witness ==
  \E k \in activeCalls : \E a \in Admins(activeUsers) :
    /\ CountIn(emitted, LAMBDA e : e.ev = "call-status-update" /\ e.call = k /\ e.to = a) > 0
    /\ CountIn(emitted, LAMBDA e : e.ev = "new-call" /\ e.call = k /\ e.to = a) = 0
    /\ \A i \in DOMAIN activeUsers : ~activeUsers[i].val.nul

\* C15: every change of the in-memory call state is mirrored to the admins
\* registered at that time: the step that adds a session broadcasts new-call,
\* the step that removes one broadcasts call-ended, and the accept-call
\* handler, which set the status to accepted, broadcasts call-status-update
\* when it finishes, also when its store update threw.
Finished(t) ==
  /\ CopiesIn(t, tasks') < CopiesIn(t, tasks)
  /\ CopiesIn([t EXCEPT !.pc = "hung"], tasks') = CopiesIn([t EXCEPT !.pc = "hung"], tasks)

C15_StateChangesMirrored ==
  [][\A a \in Admins(activeUsers) :
       /\ \A k \in activeCalls' \ activeCalls : GotBc("new-call", k, a)
       /\ \A k \in activeCalls \ activeCalls' : GotBc("call-ended", k, a)
       /\ \A t \in InFlight :
            (t.pc = "acUpdate" /\ Finished(t)) => GotBc("call-status-update", t.call, a)]_vars

\* C16: when the store update of accept-call, reject-call or end-call throws,
\* the participants are notified all the same: call-accepted / call-rejected
\* to the caller, call-ended to caller and callee.
C16_NotifiedDespiteStoreFailure ==
  [][\A t \in InFlight :
       Threw(t) =>
         /\ t.pc = "acUpdate" => Got("call-accepted", t.call, callInfo[t.call].caller)
         /\ t.pc = "rjUpdate" => Got("call-rejected", t.call, callInfo[t.call].caller)
         /\ t.pc = "ecUpdate" => /\ Got("call-ended", t.call, callInfo[t.call].caller)
                                 /\ Got("call-ended", t.call, callInfo[t.call].callee)]_vars

\* C17: when the store update of accept-call throws while the record still
\* says initiated, the handler leaves the in-memory status at initiated.
C17_AcceptRolledBack ==
  [][\A t \in InFlight :
       (Threw(t) /\ t.pc = "acUpdate" /\ callDb[t.call].status = "initiated")
         => callInfo'[t.call].status = "initiated"]_vars

\* C18: when the store update of accept-call throws, call-error is emitted
\* to the socket that sent accept-call.
C18_AcceptFailureReported ==
  [][\A t \in InFlight :
       (Threw(t) /\ t.pc = "acUpdate")
         => CountIn(emitted', LAMBDA e : e.ev = "call-error" /\ e.to = t.sock)
              > CountIn(emitted, LAMBDA e : e.ev = "call-error" /\ e.to = t.sock)]_vars

\* C19: when the lookup of the callee or call.save() throws in initiate-call,
\* the handler emits call-error 'Failed to initiate call' to the initiator
\* and nothing else (no incoming-call, no new-call), adds no session and no
\* record, and is over.
C19_InitiateFailureReported ==
  [][\A t \in InFlight :
       (Threw(t) /\ t.pc \in {"icFindCallee", "icSave"})
         => /\ emitted' = emitted (+) BagOf([ev |-> "call-error", to |-> t.sock,
                                             call |-> 0,
                                             reason |-> "Failed to initiate call",
                                             live |-> t.sock \notin closed,
                                             bc |-> FALSE, callerId |-> Null,
                                             callerName |-> Null,
                                             dur |-> {}, sender |-> Null,
                                             body |-> Null], 1)
            /\ activeCalls' = activeCalls
            /\ callInfo' = callInfo
            /\ callDb' = callDb
            /\ BagCardinality(tasks') = BagCardinality(tasks) - 1]_vars

\* A store call of initiate-call threw and was reported: no record exists, so
\* the call-error does not come from a broadcast that threw after the save.
C19_Witness ==
  /\ nFailures > 0
  /\ \E e \in DOMAIN emitted : e.ev = "call-error" /\ e.reason = "Failed to initiate call"
  /\ callDb = <<>>
  /\ \A t \in InFlight : t.pc # "hung"

\* C20: every handler invocation in flight eventually completes, also when
\* a store call it awaits never returns (as long as the process lives).
C20_EveryHandlerCompletes == (InFlight # {} /\ ~escaped) ~> (InFlight = {} \/ escaped)

\* The step adds a copy of e to the emitted events.
New(e) == CopiesIn(e, emitted') > CopiesIn(e, emitted)

\* The handler invocation t returns in this step (normally or through its catch).
Returned(t) ==
  /\ CopiesIn(t, tasks') < CopiesIn(t, tasks)
  /\ BagCardinality(tasks') < BagCardinality(tasks)

\* C21: accept-call for a callId that activeCalls does not hold emits
\* call-error 'Call not found' to the sender and nothing else, starts no
\* store update and leaves activeCalls, the sessions and the records as
\* they are.
C21_AcceptUnknownCall ==
  [][\A s \in Sockets, k \in CallIdInputs :
       (AcceptCall(s, k) /\ k \notin activeCalls)
         => /\ \E e \in DOMAIN emitted' : New(e)
            /\ \A e \in DOMAIN emitted' :
                 New(e) => (e.ev = "call-error" /\ e.reason = "Call not found"
                            /\ e.to = s)
            /\ tasks' = tasks
            /\ callWrites' = callWrites
            /\ callDb' = callDb
            /\ callInfo' = callInfo
            /\ activeCalls' = activeCalls]_vars

\* accept-call arrived for a call that had been created and was no longer in
\* activeCalls, and call-error 'Call not found' was emitted.
C21_Witness ==
  /\ \E k \in DOMAIN hist : \E i \in DOMAIN hist[k] :
       hist[k][i].op = "accept-call" /\ ~hist[k][i].started
  /\ \E e \in DOMAIN emitted : e.ev = "call-error" /\ e.reason = "Call not found"

\* C22: reject-call and end-call for a callId that activeCalls does not hold
\* do nothing: no store update is started, nothing is emitted, activeUsers,
\* activeCalls, the sessions and the records are unchanged.
C22_RejectEndUnknownCallSilent ==
  [][\A s \in Sockets, k \in CallIdInputs :
       ((RejectCall(s, k) \/ EndCall(s, k)) /\ k \notin activeCalls)
         => /\ emitted' = emitted
            /\ tasks' = tasks
            /\ callWrites' = callWrites
            /\ callDb' = callDb
            /\ callInfo' = callInfo
            /\ activeCalls' = activeCalls
            /\ activeUsers' = activeUsers]_vars

\* A reject-call or end-call arrived for a call that an earlier reject-call
\* or end-call had found in activeCalls, and no longer found it there.
C22_Witness ==
  \E k \in DOMAIN hist : \E i, j \in DOMAIN hist[k] :
    /\ i < j
    /\ hist[k][i].op \in {"reject-call", "end-call"} /\ hist[k][i].started
    /\ hist[k][j].op \in {"reject-call", "end-call"} /\ ~hist[k][j].started

\* C23: no exception leaves an event handler uncaught.
C23_NoExceptionEscapes == ~escaped

\* C24: when a store call of user-joined throws, the entry that the handler
\* put in activeUsers stays (the data the connection supplied) and nothing
\* is emitted to report the failure.
C24_JoinSurvivesStoreFailure ==
  [][\A t \in InFlight :
       (Threw(t) /\ t.op = "user-joined")
         => /\ activeUsers' = activeUsers
            /\ emitted' = emitted
            /\ t.sock \notin closed => MapHas(activeUsers', t.sock)
            /\ (t.sock \notin closed /\ JoinPayloads(t.sock) = {t.user})
                 => MapGet(activeUsers', t.sock) = t.user]_vars

\* The handlers of a user-joined are over, one of them through a store update
\* that threw (only one update was applied), and the entry is in activeUsers.
C24_Witness ==
  \E s \in Sockets :
    /\ MapHas(activeUsers, s) /\ ~MapGet(activeUsers, s).nul
    /\ nFailures > 0
    /\ \A t \in InFlight : t.sock # s
    /\ CountIn(dirWrites, LAMBDA w : w.sock = s /\ w.online) = 1

\* C25: when a disconnect handler returns, activeUsers has no entry for its
\* connection, also when a store update or an admin broadcast in it threw.
C25_DisconnectRemovesEntry ==
  [][\A t \in InFlight :
       (Returned(t) /\ t.op = "disconnect") => ~MapHas(activeUsers', t.sock)]_vars

\* C26: the user data stored for a connection in activeUsers never changes
\* while the connection has an entry, whatever user-joined events it sends.
C26_EntryNeverUpdated ==
  [][\A s \in Sockets :
       (/\ MapHas(activeUsers, s) /\ ~MapGet(activeUsers, s).nul
        /\ MapHas(activeUsers', s) /\ ~MapGet(activeUsers', s).nul)
         => MapGet(activeUsers', s) = MapGet(activeUsers, s)]_vars

\* C27: activeUsers never holds two entries for one socket id.
C27_OneEntryPerConnection ==
  \A i, j \in DOMAIN activeUsers :
    activeUsers[i].key = activeUsers[j].key => i = j

\* A connection whose user-joined handlers ran more than once has an entry.
C27_Witness ==
  \E s \in Sockets :
    /\ MapHas(activeUsers, s)
    /\ CountIn(dirWrites, LAMBDA w : w.sock = s /\ w.online) > NumBlocks

\* C28: an offer, answer or ice-candidate event changes neither activeUsers
\* nor activeCalls nor the stores; what it emits is that event, to the socket
\* named in target, never to the sender, with the payload field unmodified
\* and the sender's socket id; when the target is the sender or no socket
\* has that id, nothing is emitted.
C28_RelayIsPassThrough ==
  [][\A s \in RelaySenders, ev \in RelayEvents : \A data \in RelayPayloads(s, ev) :
       Relay(s, ev, data)
         => /\ activeUsers' = activeUsers
            /\ activeCalls' = activeCalls
            /\ callInfo' = callInfo
            /\ userDir' = userDir
            /\ callDb' = callDb
            /\ callWrites' = callWrites
            /\ dirWrites' = dirWrites
            /\ \A e \in DOMAIN emitted' :
                 New(e) => /\ ~data.nul
                           /\ e.ev = ev
                           /\ e.to = data.target /\ e.to # s
                           /\ e.sender = s
                           /\ e.body = data.body
            /\ IF ~data.nul /\ data.target \in Sockets \ {s}
                 THEN \E e \in DOMAIN emitted' : New(e)
                 ELSE emitted' = emitted]_vars

\* A signaling message of s1 was relayed to the connected socket s3.
C28_Witness ==
  \E e \in DOMAIN emitted :
    e.ev \in RelayEvents /\ e.to = "s3" /\ e.sender = "s1" /\ e.live

\* C29: when reject-call is the only event on a call since its creation and
\* its store update returns, the record is rejected and has an end time,
\* call-rejected goes to the caller's socket and not to the callee's, the
\* session leaves activeCalls and call-ended with reason 'rejected' goes to
\* every admin in activeUsers; when the update throws the session stays.
C29_RejectOutcome ==
  [][\A t \in InFlight :
       /\ (/\ t.pc = "rjUpdate"
           /\ Resumed(t)
           /\ Len(hist[t.call]) = 1
           /\ hist[t.call][1].op = "reject-call")
          => /\ callDb'[t.call].status = "rejected"
             /\ callDb'[t.call].endTime # {}
             /\ Got("call-rejected", t.call, callInfo[t.call].caller)
             /\ \A e \in DOMAIN emitted' :
                  (New(e) /\ e.ev = "call-rejected") => e.to = callInfo[t.call].caller
             /\ t.call \notin activeCalls'
             /\ \A a \in Admins(activeUsers) :
                  \E e \in DOMAIN emitted' :
                    /\ New(e) /\ e.bc /\ e.to = a
                    /\ e.ev = "call-ended" /\ e.call = t.call /\ e.reason = "rejected"
       /\ (t.pc = "rjUpdate" /\ Threw(t)) => activeCalls' = activeCalls]_vars

C31_NameResolutionNeverRaises ==
  [][\A t \in InFlight :
       /\ (t.pc = "icFindCaller" /\ Threw(t))
            => /\ emitted' = emitted
               /\ tasks' = Suspend(t, [t EXCEPT !.pc = "icSave"])
               /\ t.callerUser = Null
       /\ (t.pc = "icSave" /\ Resumed(t))
            => LET k == Len(callDb) + 1
                   found == t.callerUser # Null
                   name == IF t.callerName # Null THEN t.callerName
                           ELSE IF found /\ Profile(t.callerUser).username # Null
                                  THEN Profile(t.callerUser).username
                           ELSE IF found /\ Profile(t.callerUser).name # Null
                                  THEN Profile(t.callerUser).name
                           ELSE IF found /\ Profile(t.callerUser).email # Null
                                  THEN Profile(t.callerUser).email
                           ELSE "Unknown"
                   p == Profile(t.calleeId)
               IN  /\ k \in activeCalls'
                   /\ callInfo'[k].callerName = name
                   /\ (p.username = Null /\ p.name = Null /\ p.email = Null)
                        => callInfo'[k].calleeName = "Unknown"
                   /\ callInfo'[k].calleeName # Null
                   /\ \E e \in DOMAIN emitted' :
                        /\ New(e)
                        /\ e.ev = "incoming-call" /\ e.call = k
                        /\ e.to = t.callee.socketId
                        /\ e.callerName = name]_vars

\* A call in the name of u1, whose document has a name, went out without a
\* callerName and is held under 'Unknown': the lookup of the caller threw;
\* the callee got incoming-call with that name.
C31_Witness ==
  \E k \in activeCalls :
    /\ callInfo[k].callerId = "u1"
    /\ callInfo[k].callerName = "Unknown"
    /\ callInfo[k].calleeName = "Unknown"
    /\ nFailures > 0
    /\ \E e \in DOMAIN emitted :
         e.ev = "incoming-call" /\ e.call = k /\ e.callerName = "Unknown"

\* C32: a call that has a record but no session in activeCalls, and on which
\* no handler is in flight, has a terminal status (rejected or ended) in the
\* Call collection.
C32_NoSessionMeansTerminal ==
  \A k \in DOMAIN callDb :
    (k \notin activeCalls /\ Quiet(k)) => callDb[k].status \in Terminal

\* C33: accept-call or reject-call on a call that is sent by a connection other
\* than the callee's, and end-call sent by a connection that is neither the
\* caller's nor the callee's, changes nothing of the call: the session keeps
\* its fields and no handler is started that would write to the record.
C33_OnlyParticipantsChangeCall ==
  [][\A k \in DOMAIN hist :
       Len(hist'[k]) > Len(hist[k])
         => LET e == hist'[k][Len(hist'[k])]
                c == callInfo[k]
            IN  (\/ e.op \in {"accept-call", "reject-call"} /\ e.sock # c.callee
                 \/ e.op = "end-call" /\ e.sock \notin {c.caller, c.callee})
                  => /\ callInfo'[k] = c
                     /\ \A t \in BagToSet(tasks') :
                          t.call = k => CopiesIn(t, tasks') = CopiesIn(t, tasks)]_vars

\* The connections that joined as user u and have not disconnected.
Live(u) ==
  {s \in Sockets \ closed :
     MapHas(activeUsers, s) /\ ~MapGet(activeUsers, s).nul /\ MapGet(activeUsers, s).id = u}

\* C34: when the callee has a connection that joined and has not
\* disconnected, no store call has failed and no handler other than the
\* initiate-call itself is in flight, initiate-call does not answer
\* 'User is offline'.
C34_PeerOfflineOnlyWhenOffline ==
  [][\A t \in InFlight :
       (/\ t.pc = "icFindCallee"
        /\ Resumed(t)
        /\ InFlight = {t}
        /\ nFailures = 0
        /\ Live(t.calleeId) # {})
       => ~\E e \in DOMAIN emitted' :
             New(e) /\ e.ev = "call-error" /\ e.reason = "User is offline"]_vars

\* C35: every entry of activeUsers holds user data: a user-joined event
\* without payload leaves no entry behind.
C35_EntriesWellFormed ==
  \A i \in DOMAIN activeUsers : ~activeUsers[i].val.nul

\* C36: in the step that emits incoming-call for a callId, the session of
\* that callId is in activeCalls with status initiated and its record is in
\* the Call collection; and an accept-call for a callId whose incoming-call
\* was emitted is answered 'Call not found' only after a terminal write
\* (rejected or ended) was applied to the call.
C36_IncomingCallImpliesSession ==
  [][/\ \A e \in DOMAIN emitted' :
          (New(e) /\ e.ev = "incoming-call")
            => /\ e.call \in activeCalls'
               /\ callInfo'[e.call].status = "initiated"
               /\ e.call \in DOMAIN callDb'
               /\ callDb'[e.call].status = "initiated"
     /\ \A e \in DOMAIN emitted' :
          (/\ New(e) /\ e.ev = "call-error" /\ e.reason = "Call not found"
           /\ \E i \in DOMAIN emitted : i.ev = "incoming-call" /\ i.call = e.call)
            => TerminalWrites(e.call) > 0]_vars

\* The callee answered the incoming-call it got with accept-call and the
\* handler found the session.
C36_Witness ==
  \E k \in DOMAIN hist :
    /\ \E e \in DOMAIN emitted :
         e.ev = "incoming-call" /\ e.call = k /\ e.to = callInfo[k].callee
    /\ hist[k] # <<>>
    /\ hist[k][1].op = "accept-call"
    /\ hist[k][1].sock = callInfo[k].callee
    /\ hist[k][1].started

====
